---- MODULE Spec2Model ----
(***************************************************************************)
(* Dynamic tool descriptions of the evo-memory server: the store of        *)
(* ToolDescription nodes and EVOLVED_TO relationships, and the operations  *)
(* of DynamicToolDescriptionManager on it.                                 *)
(*                                                                         *)
(* Scores and confidences are the code's floats in hundredths             *)
(* (0.05 is 5, 0.95 is 95).  A node of the store is a record; the store is *)
(* the sequence of its nodes in creation order, so that two nodes may      *)
(* carry the same (tool_name, version, environment) when no uniqueness     *)
(* constraint has been created.  datetime() reads the logical clock.       *)
(***************************************************************************)
EXTENDS Integers, Sequences, FiniteSets, TLC

\* ---- bounds of the model ----
MaxNodes == 3
MaxClock == 4
MaxTasks == 1
MaxCalls == 102
MaxCallers == 3
MaxOrder == 3

\* ---- input domains ----
ToolNames == {"search_memories", "custom_tool"}
LifecycleTools == {"search_memories"}
Versions == {"1.0", "2.0"}
OtherEnvironment == "dev"
Actors == {"user"}
Reasons == {"", "ineffective"}
NewTexts == {"improved"}

\* absent values of a node property (Cypher NULL) and of an argument (None)
NoTime == 0
None == "None"

\* DynamicToolDescriptionManager.__init__: environment defaults to production
DefaultEnvironment == "production"

Environments == {DefaultEnvironment, OtherEnvironment}
EnvArgs == {None, OtherEnvironment}

\* the table of _load_hardcoded_descriptions, in insertion order
FallbackOrder == <<"search_memories", "read_graph">>

FallbackKeys == {FallbackOrder[i] : i \in 1..Len(FallbackOrder)}

HardcodedText(tool_name) ==
  IF tool_name = "search_memories" THEN "**PRIMARY DISCOVERY TOOL**"
  ELSE IF tool_name = "read_graph" THEN "**FULL CONTEXT TOOL**"
  ELSE ""

\* self.fallback_descriptions.get(tool_name, f"Tool: {tool_name}")
FallbackGet(tool_name) ==
  IF tool_name \in FallbackKeys THEN HardcodedText(tool_name) ELSE "Tool: " \o tool_name

\* env = environment or self.environment
EnvOf(environment) == IF environment = None THEN DefaultEnvironment ELSE environment

VARIABLES
  enabled,     \* self.enabled
  constraint,  \* the store holds the constraint tool_description_unique
  nodes,       \* the ToolDescription nodes of the store
  edges,       \* the EVOLVED_TO relationships of the store
  tasks,       \* pending _increment_access_count tasks
  clock,       \* the store's datetime()
  last,        \* the last call and what it returned
  memories     \* the Memory nodes of the store: the knowledge entities

vars == <<enabled, constraint, nodes, edges, tasks, clock, last, memories>>

\* ---- the model ToolDescriptionModel and the sample models of the callers ----
ToolDescriptionModel(tool_name, version, description, environment, created_by, status, now) ==
  [tool_name |-> tool_name, version |-> version, description |-> description,
   effectiveness_score |-> 0, access_count |-> 0, created |-> now,
   last_accessed |-> NoTime, status |-> status, confidence |-> 50,
   environment |-> environment, created_by |-> created_by]

\* the models callers hand to create_tool_description: the fixture of the
\* tests, and a model without text at the edges of the score range and of the
\* usage tiers
SampleModels ==
  { [ToolDescriptionModel("search_memories", "2.0", "Enhanced search tool", DefaultEnvironment,
                          "test_user", "active", 1)
       EXCEPT !.effectiveness_score = 85, !.confidence = 90],
    [ToolDescriptionModel("search_memories", "1.0", "", DefaultEnvironment,
                          "test_user", "active", 1)
       EXCEPT !.effectiveness_score = 97, !.access_count = 5, !.confidence = 90] }

\* ---- the store's queries ----
Ids(ns) == 1..Len(ns)

\* a match that leaves the environment out of the pattern
KeyIdsAnyEnvironment(ns, tool_name, version, environment) ==
  {i \in Ids(ns) : ns[i].tool_name = tool_name /\ ns[i].version = version}

KeyIds(ns, tool_name, version, environment) ==
  {i \in Ids(ns) : /\ ns[i].tool_name = tool_name
                   /\ ns[i].version = version
                   /\ ns[i].environment = environment}

\* a MATCH that forgets status: 'active'
ActiveIdsAnyStatus(ns, tool_name, environment) ==
  {i \in Ids(ns) : ns[i].tool_name = tool_name /\ ns[i].environment = environment}

ActiveIds(ns, tool_name, environment) ==
  {i \in Ids(ns) : /\ ns[i].tool_name = tool_name
                   /\ ns[i].environment = environment
                   /\ ns[i].status = "active"}

\* LIMIT 1 without the ORDER BY
BestIdsUnordered(ns, tool_name, environment) == ActiveIds(ns, tool_name, environment)

\* ORDER BY desc.effectiveness_score DESC LIMIT 1: the candidates for the row
BestIds(ns, tool_name, environment) ==
  {i \in ActiveIds(ns, tool_name, environment) :
     \A j \in ActiveIds(ns, tool_name, environment) :
        ns[i].effectiveness_score >= ns[j].effectiveness_score}

\* a CREATE that counts its own write as an access
NewNodeCounting(model) ==
  [tool_name |-> model.tool_name, version |-> model.version,
   environment |-> model.environment, description |-> model.description,
   effectiveness_score |-> model.effectiveness_score,
   access_count |-> model.access_count + 1, created |-> model.created,
   last_accessed |-> model.created, status |-> model.status,
   confidence |-> model.confidence, created_by |-> model.created_by,
   deprecated_at |-> NoTime, deprecated_by |-> None, deprecation_reason |-> None,
   reactivated_at |-> NoTime, reactivated_by |-> None]

\* CREATE (desc:ToolDescription {...}): the node as stored
NewNode(model) ==
  [tool_name |-> model.tool_name, version |-> model.version,
   environment |-> model.environment, description |-> model.description,
   effectiveness_score |-> model.effectiveness_score,
   access_count |-> model.access_count, created |-> model.created,
   last_accessed |-> model.last_accessed, status |-> model.status,
   confidence |-> model.confidence, created_by |-> model.created_by,
   deprecated_at |-> NoTime, deprecated_by |-> None, deprecation_reason |-> None,
   reactivated_at |-> NoTime, reactivated_by |-> None]

\* the CREATE raises when the store fails or the constraint is violated
CreateRaises(ns, model, fail) ==
  \/ fail
  \/ constraint /\ KeyIds(ns, model.tool_name, model.version, model.environment) # {}

\* create_tool_description: [success, nodes]
create_tool_description(ns, model, fail) ==
  IF CreateRaises(ns, model, fail)
  THEN [success |-> FALSE, nodes |-> ns]
  ELSE [success |-> TRUE, nodes |-> Append(ns, NewNode(model))]

\* the SET clause of record_effectiveness on one node
\* a clamp that forgets the upper bound
ClampNoUpper(x) == IF x < 0 THEN 0 ELSE x

Clamp(x) == IF x > 100 THEN 100 ELSE IF x < 0 THEN 0 ELSE x

\* an adjustment that takes as much for a failure as it gives for a success
AdjustmentSymmetric(success) == IF success THEN 5 ELSE -5

\* adjustment = 0.05 if success else -0.02
Adjustment(success) == IF success THEN 5 ELSE -2

Tier(node) ==
  IF node.access_count > 10 THEN 95
  ELSE IF node.access_count > 5 THEN 80
  ELSE node.confidence

\* a SET clause that takes a failure as a share of the score
AdjustedByShare(node, adjustment) ==
  [node EXCEPT !.effectiveness_score =
                  IF adjustment > 0 THEN (IF @ + adjustment > 100 THEN 100 ELSE @ + adjustment)
                  ELSE (@ * 98) \div 100,
               !.confidence = Tier(node)]

\* a SET clause that adds the adjustment without the CASE around it
AdjustedUnclamped(node, adjustment) ==
  [node EXCEPT !.effectiveness_score = node.effectiveness_score + adjustment,
               !.confidence = Tier(node)]

Adjusted(node, adjustment) ==
  [node EXCEPT !.effectiveness_score = Clamp(node.effectiveness_score + adjustment),
               !.confidence = Tier(node)]

\* the SET clause of _increment_access_count on one node
Strengthened(node, now) ==
  [node EXCEPT !.access_count = node.access_count + 1, !.last_accessed = now]

\* a guard that never finds the manager disabled
DisabledNever == FALSE

\* if not self.enabled
Disabled == ~enabled

\* no call is in progress: the response of the last call has been handed over
Idle == [op |-> "idle", status |-> "none"]

Init ==
  /\ enabled \in BOOLEAN
  /\ constraint = FALSE
  /\ nodes = << >>
  /\ edges = {}
  /\ tasks = << >>
  /\ clock = 1
  /\ last = Idle
  /\ memories = << >>

\* a write of the store happens at the current time, and time passes
Tick == clock < MaxClock /\ clock' = clock + 1

\* ---- get_tool_description ----
\* a read that starts the strengthening twice
CreateTaskTwice(ts, tool_name, environment, version) ==
  ts \o << [tool_name |-> tool_name, environment |-> environment, version |-> version],
           [tool_name |-> tool_name, environment |-> environment, version |-> version] >>

\* asyncio.create_task(self._increment_access_count(tool_name, env, version))
CreateTask(ts, tool_name, environment, version) ==
  Append(ts, [tool_name |-> tool_name, environment |-> environment, version |-> version])

GetToolDescription(tool_name, environment) ==
  LET env == EnvOf(environment)
      call == [op |-> "get_tool_description", tool_name |-> tool_name, env |-> env,
               status |-> "fallback", raised |-> FALSE, text |-> FallbackGet(tool_name),
               version |-> None]
  IN /\ last = Idle
     /\ UNCHANGED <<memories, enabled, constraint, nodes, edges, clock>>
     /\ IF Disabled
        THEN last' = call /\ UNCHANGED tasks
        ELSE \/ last' = [call EXCEPT !.raised = TRUE] /\ UNCHANGED tasks
             \/ IF ActiveIds(nodes, tool_name, env) = {}
                THEN last' = call /\ UNCHANGED tasks
                ELSE \E i \in BestIds(nodes, tool_name, env) :
                       /\ Len(tasks) < MaxTasks
                       /\ tasks' = CreateTask(tasks, tool_name, env, nodes[i].version)
                       /\ last' = [call EXCEPT !.status = "dynamic",
                                               !.text = nodes[i].description,
                                               !.version = nodes[i].version]

\* ---- _increment_access_count, run as a task ----
IncrementAccessCount(k) ==
  LET task == tasks[k]
      ids == ActiveIds(nodes, task.tool_name, task.environment)
      call == [op |-> "_increment_access_count", tool_name |-> task.tool_name,
               env |-> task.environment, version |-> task.version,
               status |-> "none", raised |-> FALSE]
  IN /\ last = Idle
     /\ tasks' = SubSeq(tasks, 1, k - 1) \o SubSeq(tasks, k + 1, Len(tasks))
     /\ UNCHANGED <<memories, enabled, constraint, edges>>
     /\ \/ last' = [call EXCEPT !.raised = TRUE] /\ UNCHANGED <<nodes, clock>>
        \/ IF ids = {}
           THEN last' = call /\ UNCHANGED <<nodes, clock>>
           ELSE /\ Tick
                /\ nodes' = [i \in Ids(nodes) |->
                            IF i \in ids THEN Strengthened(nodes[i], clock) ELSE nodes[i]]
                /\ last' = [call EXCEPT !.status = "updated"]

\* ---- create_tool_description, called with a model of the caller ----
CreateToolDescription(sample, fail) ==
  LET model == [sample EXCEPT !.created = clock]
      r == create_tool_description(nodes, model, fail)
  IN /\ last = Idle
     /\ UNCHANGED <<memories, enabled, constraint, edges, tasks>>
     /\ nodes' = r.nodes
     /\ Len(nodes') <= MaxNodes
     /\ IF r.success THEN Tick ELSE UNCHANGED clock
     /\ last' = [op |-> "create_tool_description", tool_name |-> model.tool_name,
                 version |-> model.version, env |-> model.environment,
                 status |-> IF r.success THEN "true" ELSE "false"]

\* ---- record_effectiveness ----
RecordEffectiveness(tool_name, success, environment) ==
  LET env == EnvOf(environment)
      ids == ActiveIds(nodes, tool_name, env)
      call == [op |-> "record_effectiveness", tool_name |-> tool_name, env |-> env,
               success |-> success, status |-> "none", raised |-> FALSE]
  IN /\ last = Idle
     /\ UNCHANGED <<memories, enabled, constraint, edges, tasks>>
     /\ \/ last' = [call EXCEPT !.raised = TRUE] /\ UNCHANGED <<nodes, clock>>
        \/ IF ids = {}
           THEN last' = call /\ UNCHANGED <<nodes, clock>>
           ELSE /\ Tick
                /\ nodes' = [i \in Ids(nodes) |->
                            IF i \in ids THEN Adjusted(nodes[i], Adjustment(success))
                                        ELSE nodes[i]]
                /\ last' = [call EXCEPT !.status = "updated"]

\* ---- _check_existing_description: False when the query raises ----
check_existing_description(ns, tool_name, version, environment, fail) ==
  IF fail THEN FALSE ELSE KeyIds(ns, tool_name, version, environment) # {}

\* ---- setup_schema: five schema queries, the first creates the constraint ----
HasDuplicates(ns) ==
  \E i, j \in Ids(ns) :
     i # j /\ j \in KeyIds(ns, ns[i].tool_name, ns[i].version, ns[i].environment)

SchemaQueries == 5

\* failAt: the query that raises, 0 when none does
SetupSchema(failAt) ==
  LET raisesAt == IF HasDuplicates(nodes) /\ ~constraint THEN 1 ELSE failAt
  IN /\ last = Idle
     /\ UNCHANGED <<memories, enabled, nodes, edges, tasks, clock>>
     /\ IF Disabled
        THEN /\ UNCHANGED constraint
             /\ last' = [op |-> "setup_schema", status |-> "skipped", operations |-> 0,
                         store_failed |-> FALSE]
        ELSE /\ constraint' = (constraint \/ raisesAt # 1)
             /\ last' = [op |-> "setup_schema",
                         status |-> IF raisesAt = 0 THEN "success" ELSE "error",
                         operations |-> IF raisesAt = 0 THEN SchemaQueries ELSE raisesAt - 1,
                         store_failed |-> raisesAt # 0]

\* ---- seed_initial_descriptions: the loop over the fallback table ----
\* acc.raised: a CREATE of the call met a failure of the store (the call
\* reports it, like a rejected CREATE, as creation_failed)
RECURSIVE SeedLoop(_, _, _, _, _, _, _)
SeedLoop(k, ns, overwrite, checkFail, createFail, now, acc) ==
  IF k > Len(FallbackOrder)
  THEN [nodes |-> ns, created |-> acc.created, skipped |-> acc.skipped,
        failed |-> acc.failed, raised |-> acc.raised]
  ELSE LET tool_name == FallbackOrder[k]
           existing == check_existing_description(ns, tool_name, "1.0", DefaultEnvironment,
                                                  checkFail[tool_name])
           model == ToolDescriptionModel(tool_name, "1.0", HardcodedText(tool_name),
                                         DefaultEnvironment, "system_seeding", "active", now)
           r == create_tool_description(ns, model, createFail[tool_name])
       IN IF existing /\ ~overwrite
          THEN SeedLoop(k + 1, ns, overwrite, checkFail, createFail, now,
                        [acc EXCEPT !.skipped = Append(@, tool_name)])
          ELSE IF r.success
          THEN SeedLoop(k + 1, r.nodes, overwrite, checkFail, createFail, now,
                        [acc EXCEPT !.created = Append(@, tool_name)])
          ELSE SeedLoop(k + 1, ns, overwrite, checkFail, createFail, now,
                        [acc EXCEPT !.failed = Append(@, tool_name),
                                    !.raised = @ \/ createFail[tool_name]])

SeedInitialDescriptions(overwrite, checkFail, createFail) ==
  LET r == SeedLoop(1, nodes, overwrite, checkFail, createFail, clock,
                    [created |-> << >>, skipped |-> << >>, failed |-> << >>,
                     raised |-> FALSE])
  IN /\ last = Idle
     /\ UNCHANGED <<memories, enabled, constraint, edges, tasks>>
     /\ IF Disabled
        THEN /\ UNCHANGED <<nodes, clock>>
             /\ last' = [op |-> "seed_initial_descriptions", status |-> "skipped",
                         overwrite |-> overwrite, created |-> << >>,
                         skipped |-> << >>, failed |-> << >>, raised |-> FALSE]
        ELSE /\ nodes' = r.nodes
             /\ Len(nodes') <= MaxNodes
             /\ IF r.created # << >> THEN Tick ELSE UNCHANGED clock
             /\ last' = [op |-> "seed_initial_descriptions", status |-> "completed",
                         overwrite |-> overwrite, created |-> r.created,
                         skipped |-> r.skipped, failed |-> r.failed, raised |-> r.raised]

\* ---- mark_tool_description_deprecated ----
\* a check that never finds the description deprecated
AlreadyDeprecatedNever(current_status) == FALSE

\* if current_status == "deprecated"
AlreadyDeprecated(current_status) == current_status = "deprecated"

\* a SET clause that also resets what usage had taught
DeprecatedResetting(node, now, deprecated_by, reason) ==
  [node EXCEPT !.status = "deprecated", !.deprecated_at = now,
               !.deprecated_by = deprecated_by, !.deprecation_reason = reason,
               !.effectiveness_score = 0, !.access_count = 0]

\* a SET clause that forgets the reason
DeprecatedNoReason(node, now, deprecated_by, reason) ==
  [node EXCEPT !.status = "deprecated", !.deprecated_at = now,
               !.deprecated_by = deprecated_by]

\* the SET clause of deprecate_query on one node
Deprecated(node, now, deprecated_by, reason) ==
  [node EXCEPT !.status = "deprecated", !.deprecated_at = now,
               !.deprecated_by = deprecated_by, !.deprecation_reason = reason]

MarkToolDescriptionDeprecated(tool_name, version, reason, deprecated_by, environment) ==
  LET env == EnvOf(environment)
      ids == KeyIds(nodes, tool_name, version, env)
      call == [op |-> "mark_tool_description_deprecated", tool_name |-> tool_name,
               version |-> version, env |-> env, reason |-> reason,
               deprecated_by |-> deprecated_by, status |-> "none", deprecated_at |-> NoTime,
               store_failed |-> FALSE]
      NoWrite(status, at) ==
        /\ UNCHANGED <<nodes, clock>>
        /\ last' = [call EXCEPT !.status = status, !.deprecated_at = at,
                                !.store_failed = (status = "error")]
  IN /\ last = Idle
     /\ UNCHANGED <<memories, enabled, constraint, edges, tasks>>
     /\ IF Disabled THEN NoWrite("skipped", NoTime)
        ELSE \/ NoWrite("error", NoTime)
             \/ IF ids = {} THEN NoWrite("not_found", NoTime)
                ELSE \E first \in ids :
                       IF AlreadyDeprecated(nodes[first].status)
                       THEN NoWrite("already_deprecated", nodes[first].deprecated_at)
                       ELSE \/ NoWrite("error", NoTime)
                            \/ /\ Tick
                               /\ nodes' = [i \in Ids(nodes) |->
                                     IF i \in ids
                                     THEN Deprecated(nodes[i], clock, deprecated_by, reason)
                                     ELSE nodes[i]]
                               /\ last' = [call EXCEPT !.status = "deprecated",
                                                       !.deprecated_at = clock]

\* ---- reactivate_tool_description ----
\* a check that lets every status through
NotDeprecatedNever(current_status) == FALSE

\* if current_status != "deprecated"
NotDeprecated(current_status) == current_status # "deprecated"

\* a SET clause that wipes the deprecation history
ReactivatedClearing(node, now, reactivated_by) ==
  [node EXCEPT !.status = "active", !.reactivated_at = now,
               !.reactivated_by = reactivated_by, !.deprecated_at = NoTime,
               !.deprecated_by = None, !.deprecation_reason = None]

\* a SET clause that starts the artifact afresh
ReactivatedResetting(node, now, reactivated_by) ==
  [node EXCEPT !.status = "active", !.reactivated_at = now,
               !.reactivated_by = reactivated_by, !.effectiveness_score = 0,
               !.access_count = 0]

\* a SET clause that puts the artifact on trial again
ReactivatedAsTesting(node, now, reactivated_by) ==
  [node EXCEPT !.status = "testing", !.reactivated_at = now,
               !.reactivated_by = reactivated_by]

\* the SET clause of reactivate_query on one node
Reactivated(node, now, reactivated_by) ==
  [node EXCEPT !.status = "active", !.reactivated_at = now,
               !.reactivated_by = reactivated_by]

ReactivateToolDescription(tool_name, version, reactivated_by, environment) ==
  LET env == EnvOf(environment)
      ids == KeyIds(nodes, tool_name, version, env)
      call == [op |-> "reactivate_tool_description", tool_name |-> tool_name,
               version |-> version, env |-> env, reactivated_by |-> reactivated_by,
               status |-> "none", current_status |-> None, reactivated_at |-> NoTime,
               store_failed |-> FALSE]
      NoWrite(status, current) ==
        /\ UNCHANGED <<nodes, clock>>
        /\ last' = [call EXCEPT !.status = status, !.current_status = current,
                                !.store_failed = (status = "error")]
  IN /\ last = Idle
     /\ UNCHANGED <<memories, enabled, constraint, edges, tasks>>
     /\ IF Disabled THEN NoWrite("skipped", None)
        ELSE \/ NoWrite("error", None)
             \/ IF ids = {} THEN NoWrite("not_found", None)
                ELSE \E first \in ids :
                       IF NotDeprecated(nodes[first].status)
                       THEN NoWrite("not_deprecated", nodes[first].status)
                       ELSE \/ NoWrite("error", None)
                            \/ /\ Tick
                               /\ nodes' = [i \in Ids(nodes) |->
                                     IF i \in ids
                                     THEN Reactivated(nodes[i], clock, reactivated_by)
                                     ELSE nodes[i]]
                               /\ last' = [call EXCEPT !.status = "reactivated",
                                                       !.reactivated_at = clock]

\* ---- the tool promote_testing_to_active of the server ----
\* the methods DynamicToolDescriptionManager defines
ManagerMethods ==
  {"get_tool_description", "_increment_access_count", "create_tool_description",
   "list_tool_descriptions", "record_effectiveness", "get_hardcoded_description",
   "health_check", "setup_schema", "seed_initial_descriptions",
   "_check_existing_description", "get_schema_info", "mark_tool_description_deprecated",
   "reactivate_tool_description", "create_description_version",
   "get_description_versions", "find_low_performing_descriptions"}

\* the tool is registered when the manager is enabled; it calls
\* description_manager.promote_testing_to_active, which the manager does not
\* define: the lookup raises and the tool raises ToolError
PromoteTestingToActive(tool_name, version, promoted_by) ==
  /\ last = Idle
  /\ enabled
  /\ "promote_testing_to_active" \notin ManagerMethods
  /\ UNCHANGED <<memories, enabled, constraint, nodes, edges, tasks, clock>>
  /\ last' = [op |-> "promote_testing_to_active", tool_name |-> tool_name,
              version |-> version, env |-> DefaultEnvironment,
              promoted_by |-> promoted_by, status |-> "ToolError"]

\* ---- create_description_version ----
\* a query that creates the relationship without matching its new node
EvolvedToUnmatched(ns, tool_name, base_version, new_version, environment, now, created_by) ==
  { [from |-> b, to |-> Len(ns) + 1, created |-> now,
     evolution_type |-> "version_evolution", created_by |-> created_by] :
       b \in KeyIds(ns, tool_name, base_version, environment) }

\* evolution_query: one relationship for every pair of a base and a new node
EvolvedTo(ns, tool_name, base_version, new_version, environment, now, created_by) ==
  { [from |-> b, to |-> n, created |-> now, evolution_type |-> "version_evolution",
     created_by |-> created_by] :
       b \in KeyIds(ns, tool_name, base_version, environment),
       n \in KeyIds(ns, tool_name, new_version, environment) }

\* an except block that reports the creation all the same
EvolutionFailedAsCreated(call) ==
  [call EXCEPT !.status = "created", !.store_failed = TRUE]

\* except Exception: the failure of evolution_query is returned as an error
EvolutionFailed(call) ==
  [call EXCEPT !.status = "error", !.store_failed = TRUE]

CreateDescriptionVersion(tool_name, base_version, new_version, new_description, created_by, environment) ==
  LET env == EnvOf(environment)
      call == [op |-> "create_description_version", tool_name |-> tool_name,
               base_version |-> base_version, new_version |-> new_version, env |-> env,
               status |-> "none", store_failed |-> FALSE]
      model == ToolDescriptionModel(tool_name, new_version, new_description, env,
                                    created_by, "testing", clock)
      NoWrite(status) ==
        /\ UNCHANGED <<nodes, edges, clock>>
        /\ last' = [call EXCEPT !.status = status,
                                !.store_failed = (status \in {"error", "creation_failed"})]
  IN /\ last = Idle
     /\ UNCHANGED <<memories, enabled, constraint, tasks>>
     /\ IF Disabled THEN NoWrite("skipped")
        ELSE \/ NoWrite("error")
             \/ IF KeyIds(nodes, tool_name, base_version, env) = {}
                THEN NoWrite("base_not_found")
                ELSE \E checkFail \in BOOLEAN, createFail \in BOOLEAN :
                  LET r == create_tool_description(nodes, model, createFail)
                  IN IF check_existing_description(nodes, tool_name, new_version, env,
                                                   checkFail)
                     THEN NoWrite("version_exists")
                     ELSE IF ~r.success THEN NoWrite("creation_failed")
                     ELSE /\ Tick
                          /\ Len(r.nodes) <= MaxNodes
                          /\ nodes' = r.nodes
                          /\ \/ /\ UNCHANGED edges
                                /\ last' = EvolutionFailed(call)
                             \/ /\ edges' = edges \cup
                                      EvolvedTo(r.nodes, tool_name, base_version,
                                                new_version, env, clock, created_by)
                                /\ last' = [call EXCEPT !.status = "created",
                                                        !.store_failed = checkFail]

\* ---- get_schema_info ----
GetSchemaInfo ==
  LET call == [op |-> "get_schema_info", status |-> "disabled", constraints |-> FALSE,
               total_descriptions |-> 0, store_failed |-> FALSE]
  IN /\ last = Idle
     /\ UNCHANGED <<memories, enabled, constraint, nodes, edges, tasks, clock>>
     /\ IF Disabled THEN last' = call
        ELSE \/ last' = [call EXCEPT !.status = "error", !.store_failed = TRUE]
             \/ last' = [call EXCEPT !.status = "success", !.constraints = constraint,
                                     !.total_descriptions = Len(nodes)]

\* ---- get_description_versions ----
\* one query for the versions, filtered by include_deprecated, and one for
\* the relationships among the nodes of (tool_name, environment)
GetDescriptionVersions(tool_name, environment, include_deprecated) ==
  LET env == EnvOf(environment)
      call == [op |-> "get_description_versions", tool_name |-> tool_name, env |-> env,
               include_deprecated |-> include_deprecated, status |-> "skipped",
               versions |-> {}, evolutions |-> {}]
      ofTool == {i \in Ids(nodes) : /\ nodes[i].tool_name = tool_name
                                    /\ nodes[i].environment = env}
      listed == {i \in ofTool : include_deprecated \/ nodes[i].status # "deprecated"}
  IN /\ last = Idle
     /\ UNCHANGED <<memories, enabled, constraint, nodes, edges, tasks, clock>>
     /\ IF Disabled THEN last' = call
        ELSE \/ last' = [call EXCEPT !.status = "error"]
             \/ last' = [call EXCEPT
                           !.status = "success",
                           !.versions = {nodes[i].version : i \in listed},
                           !.evolutions =
                              {[from_version |-> nodes[e.from].version,
                                to_version |-> nodes[e.to].version] :
                                 e \in {d \in edges : d.from \in ofTool /\ d.to \in ofTool}}]

\* ---- health_check ----
\* one counting query over the active artifacts, inside a try/except
HealthCheck ==
  LET call == [op |-> "health_check", status |-> "disabled", enabled |-> enabled,
               active_descriptions |-> 0, store_failed |-> FALSE]
      active == {i \in Ids(nodes) : nodes[i].status = "active"}
  IN /\ last = Idle
     /\ UNCHANGED <<memories, enabled, constraint, nodes, edges, tasks, clock>>
     /\ IF Disabled THEN last' = call
        ELSE \/ last' = [call EXCEPT !.status = "error", !.store_failed = TRUE]
             \/ last' = [call EXCEPT !.status = "healthy",
                                     !.active_descriptions = Cardinality(active)]

\* ---- the response is handed to the caller; the next call may start ----
Respond ==
  /\ last # Idle
  /\ last' = Idle
  /\ UNCHANGED <<memories, enabled, constraint, nodes, edges, tasks, clock>>

Next ==
  \/ \E t \in ToolNames, e \in EnvArgs : GetToolDescription(t, e)
  \/ \E k \in 1..Len(tasks) : IncrementAccessCount(k)
  \/ \E m \in SampleModels, f \in BOOLEAN : CreateToolDescription(m, f)
  \/ \E t \in ToolNames, s \in BOOLEAN, e \in EnvArgs : RecordEffectiveness(t, s, e)
  \/ \E f \in 0..SchemaQueries : SetupSchema(f)
  \/ \E o \in BOOLEAN, cf \in [FallbackKeys -> BOOLEAN], rf \in [FallbackKeys -> BOOLEAN] :
        SeedInitialDescriptions(o, cf, rf)
  \/ \E t \in LifecycleTools, v \in Versions, r \in Reasons, b \in Actors, e \in EnvArgs :
        MarkToolDescriptionDeprecated(t, v, r, b, e)
  \/ \E t \in LifecycleTools, v \in Versions, b \in Actors, e \in EnvArgs :
        ReactivateToolDescription(t, v, b, e)
  \/ \E t \in LifecycleTools, v \in Versions, b \in Actors : PromoteTestingToActive(t, v, b)
  \/ \E t \in LifecycleTools, bv \in Versions, nv \in Versions, d \in NewTexts, b \in Actors,
        e \in EnvArgs : CreateDescriptionVersion(t, bv, nv, d, b, e)
  \/ GetSchemaInfo
  \/ \E t \in LifecycleTools, e \in EnvArgs, d \in BOOLEAN : GetDescriptionVersions(t, e, d)
  \/ HealthCheck
  \/ Respond

Spec == Init /\ [][Next]_vars

\* ---- record_effectiveness called again and again with one success flag ----
\* the store holds one active artifact; its score starts anywhere in [0, 1]
InitRun ==
  /\ enabled \in BOOLEAN
  /\ constraint = FALSE
  /\ \E s \in 0..100, success \in BOOLEAN :
        /\ nodes = << NewNode([ToolDescriptionModel("search_memories", "1.0",
                                   HardcodedText("search_memories"), DefaultEnvironment,
                                   "system_seeding", "active", 1)
                                 EXCEPT !.effectiveness_score = s]) >>
        /\ last = [op |-> "record_effectiveness", tool_name |-> "search_memories",
                   env |-> DefaultEnvironment, success |-> success, status |-> "none",
                   raised |-> FALSE, start |-> s, calls |-> 0]
  /\ edges = {}
  /\ tasks = << >>
  /\ clock = 1
  /\ memories = << >>

\* one more call of the run; calls counts the calls the store answered
RecordEffectivenessAgain(success) ==
  LET ids == ActiveIds(nodes, last.tool_name, last.env)
  IN /\ last.success = success
     /\ last.calls < MaxCalls
     /\ UNCHANGED <<memories, enabled, constraint, edges, tasks, clock>>
     /\ \/ last' = [last EXCEPT !.raised = TRUE, !.status = "none"] /\ UNCHANGED nodes
        \/ /\ nodes' = [i \in Ids(nodes) |->
                         IF i \in ids THEN Adjusted(nodes[i], Adjustment(success))
                                     ELSE nodes[i]]
           /\ last' = [last EXCEPT !.raised = FALSE, !.status = "updated",
                                   !.calls = last.calls + 1]

NextRun == \E success \in BOOLEAN : RecordEffectivenessAgain(success)

SpecRun == InitRun /\ [][NextRun]_vars

\* ---------------- the knowledge entities (Memory nodes) ----------------

\* an Entity with its evo-metadata; confidence and effectiveness in hundredths
EntityModel(name, confidence, effectiveness_score, access_count, status) ==
  [name |-> name, confidence |-> confidence,
   effectiveness_score |-> effectiveness_score, access_count |-> access_count,
   status |-> status, last_accessed |-> NoTime]

\* the entities of the store: create_entities merges on the name, so names
\* are unique, and it writes every evo-metadata field
SampleEntities ==
  << EntityModel("entity1", 90, 0, 0, "active"),
     EntityModel("entity2", 10, 90, 100, "deprecated"),
     EntityModel("entity3", 90, 0, 0, "active") >>

EntityNames == {SampleEntities[i].name : i \in 1..Len(SampleEntities)}

\* what the full-text index yields for a filter: some entities, each with a score
MatchScores == {1, 2}
Hits == UNION {[S -> MatchScores] : S \in SUBSET EntityNames}

\* the names a caller asks for
NameArgs == SUBSET {"entity1", "entity2", "unknown"}

\* log() of the store, the natural logarithm, in millionths
LnMicro(n) ==
  CASE n = 1 -> 0        [] n = 2 -> 693147   [] n = 3 -> 1098612
    [] n = 4 -> 1386294  [] n = 5 -> 1609438  [] n = 6 -> 1791759
    [] n = 7 -> 1945910  [] n = 8 -> 2079442  [] n = 9 -> 2197225
    [] n = 101 -> 4615121 [] n = 102 -> 4624973 [] n = 103 -> 4634729
    [] n = 104 -> 4644391 [] n = 105 -> 4653960 [] n = 106 -> 4663439
    [] n = 107 -> 4672829 [] n = 108 -> 4682131 [] n = 109 -> 4691348

\* the weight of a status, in hundredths
StatusWeight(status) ==
  CASE status = "active" -> 100
    [] status = "testing" -> 80
    [] status = "deprecated" -> 40
    [] OTHER -> 60

\* conf * 0.4 + eff * 0.3 + log(access_count + 1) * 0.2 + status_weight * 0.1,
\* in units of 0.0000002 (a score of 1.0 is 5000000)
discovery_score(entity) ==
  entity.confidence * 20000 + entity.effectiveness_score * 15000
    + LnMicro(entity.access_count + 1) + StatusWeight(entity.status) * 5000

\* SET access_count = coalesce(access_count, 0) + 1, last_accessed = datetime()
StrengthenedEntity(entity) ==
  [entity EXCEPT !.access_count = entity.access_count + 1, !.last_accessed = clock]

\* a mis-ordering of the rows: the match score first
OrderByMatchFirst(x, y, hits) ==
  \/ hits[x.name] > hits[y.name]
  \/ hits[x.name] = hits[y.name] /\ discovery_score(x) >= discovery_score(y)

\* ORDER BY discovery_score DESC, score DESC: row x may stand before row y
OrderBy(x, y, hits) ==
  \/ discovery_score(x) > discovery_score(y)
  \/ discovery_score(x) = discovery_score(y) /\ hits[x.name] >= hits[y.name]

\* the orders in which the sorted rows can come out
SortedRows(rows, hits) ==
  {order \in [1..Cardinality(rows) -> rows] :
     /\ \A i, j \in DOMAIN order : i # j => order[i] # order[j]
     /\ \A i, j \in DOMAIN order : i < j => OrderBy(order[i], order[j], hits)}

\* ---- load_graph: read_graph and search_memories ----
\* one query matches, strengthens, scores, sorts and returns; nothing catches
\* an error of the store, and the tool turns it into a ToolError
LoadGraph(hits) ==
  LET matched == {i \in Ids(memories) : memories[i].name \in DOMAIN hits}
      after == [i \in Ids(memories) |->
                  IF i \in matched THEN StrengthenedEntity(memories[i]) ELSE memories[i]]
      rows == {after[i] : i \in matched}
      call == [op |-> "load_graph", hits |-> hits, status |-> "returned",
               update_failed |-> FALSE, entities |-> << >>, scores |-> << >>]
  IN /\ last = Idle
     /\ Tick
     /\ UNCHANGED <<enabled, constraint, nodes, edges, tasks>>
     /\ \/ /\ matched # {}
           /\ last' = [call EXCEPT !.status = "raised", !.update_failed = TRUE]
           /\ UNCHANGED memories
        \/ /\ memories' = after
           /\ \E order \in SortedRows(rows, hits) :
                last' = [call EXCEPT !.entities = order,
                           !.scores = [k \in DOMAIN order |-> discovery_score(order[k])]]

\* ---- find_memories_by_name ----
\* the first query strengthens and returns the named entities; a second one
\* reads their relations; nothing catches an error of the store
FindMemoriesByName(names) ==
  LET matched == {i \in Ids(memories) : memories[i].name \in names}
      after == [i \in Ids(memories) |->
                  IF i \in matched THEN StrengthenedEntity(memories[i]) ELSE memories[i]]
      call == [op |-> "find_memories_by_name", names |-> names, status |-> "returned",
               update_failed |-> FALSE, found |-> {}]
  IN /\ last = Idle
     /\ Tick
     /\ UNCHANGED <<enabled, constraint, nodes, edges, tasks>>
     /\ \/ /\ matched # {}
           /\ last' = [call EXCEPT !.status = "raised", !.update_failed = TRUE]
           /\ UNCHANGED memories
        \/ /\ matched # {}
           /\ memories' = after
           /\ last' = [call EXCEPT !.status = "raised"]
        \/ /\ memories' = after
           /\ last' = [call EXCEPT !.found = {after[i] : i \in matched}]

InitMemory ==
  /\ enabled = TRUE
  /\ constraint = FALSE
  /\ nodes = << >>
  /\ edges = {}
  /\ tasks = << >>
  /\ clock = 1
  /\ last = Idle
  /\ memories = SampleEntities

NextMemory ==
  \/ \E hits \in Hits : LoadGraph(hits)
  \/ \E names \in NameArgs : FindMemoriesByName(names)
  \/ Respond

SpecMemory == InitMemory /\ [][NextMemory]_vars

\* ---- record_effectiveness called by several callers at once ----
\* a call in flight: the client has fixed its adjustment and sent the query;
\* seen is the score the store held when the call was made, which the client
\* never reads

\* a write-back of a score the client computed from the score it saw
ScoreWrittenBack(node, call) ==
  Adjusted([node EXCEPT !.effectiveness_score = call.seen], call.adjustment)

\* SET desc.effectiveness_score = CASE ... desc.effectiveness_score + $adjustment:
\* the store reads and writes the score under the lock of the node
ScoreSet(node, call) == Adjusted(node, call.adjustment)

InitConcurrent ==
  /\ enabled = TRUE
  /\ constraint = FALSE
  /\ \E s \in 0..100 :
        /\ nodes = << NewNode([ToolDescriptionModel("search_memories", "1.0",
                                   HardcodedText("search_memories"), DefaultEnvironment,
                                   "system_seeding", "active", 1)
                                 EXCEPT !.effectiveness_score = s]) >>
        /\ last = [op |-> "record_effectiveness", tool_name |-> "search_memories",
                   env |-> DefaultEnvironment, start |-> s, started |-> 0,
                   successes |-> 0, failures |-> 0, clamped |-> FALSE,
                   overlapped |-> FALSE]
  /\ edges = {}
  /\ tasks = << >>
  /\ clock = 1
  /\ memories = << >>

\* a caller computes the adjustment and sends the query
StartRecordEffectiveness(success) ==
  /\ last.started < MaxCallers
  /\ tasks' = Append(tasks, [success |-> success, adjustment |-> Adjustment(success),
                             seen |-> nodes[1].effectiveness_score])
  /\ last' = [last EXCEPT !.started = last.started + 1]
  /\ UNCHANGED <<memories, enabled, constraint, nodes, edges, clock>>

\* the store runs the query of call k, or fails and the call logs the error
ExecuteRecordEffectiveness(k) ==
  LET call == tasks[k]
      ids == ActiveIds(nodes, last.tool_name, last.env)
      rest == SubSeq(tasks, 1, k - 1) \o SubSeq(tasks, k + 1, Len(tasks))
      sum == nodes[1].effectiveness_score + call.adjustment
  IN /\ tasks' = rest
     /\ UNCHANGED <<memories, enabled, constraint, edges, clock>>
     /\ \/ UNCHANGED <<nodes, last>>
        \/ /\ nodes' = [i \in Ids(nodes) |->
                         IF i \in ids THEN ScoreSet(nodes[i], call) ELSE nodes[i]]
           /\ last' = [last EXCEPT
                         !.successes = IF call.success THEN @ + 1 ELSE @,
                         !.failures = IF call.success THEN @ ELSE @ + 1,
                         !.clamped = @ \/ sum > 100 \/ sum < 0,
                         !.overlapped = @ \/ call.seen # nodes[1].effectiveness_score]

NextConcurrent ==
  \/ \E success \in BOOLEAN : StartRecordEffectiveness(success)
  \/ \E k \in 1..Len(tasks) : ExecuteRecordEffectiveness(k)

SpecConcurrent == InitConcurrent /\ [][NextConcurrent]_vars

\* ---- one set of record_effectiveness calls applied in two orders ----
\* nodes[1] and nodes[2] are the same active artifact in two runs that start
\* from the same score; the runs receive the same calls, each in its own order

\* the call sequences of one length: TRUE is a success, FALSE a failure
Orders(n) == [1..n -> BOOLEAN]

\* the number of successes of a call sequence
Successes(order) == Cardinality({k \in DOMAIN order : order[k]})

InitOrder ==
  /\ enabled = TRUE
  /\ constraint = FALSE
  /\ \E s \in 0..100, n \in 1..MaxOrder :
       \E first \in Orders(n), second \in Orders(n) :
        /\ Successes(first) = Successes(second)
        /\ LET node == [NewNode(ToolDescriptionModel("search_memories", "1.0",
                                   HardcodedText("search_memories"), DefaultEnvironment,
                                   "system_seeding", "active", 1))
                          EXCEPT !.effectiveness_score = s]
           IN nodes = << node, node >>
        /\ last = [op |-> "record_effectiveness", start |-> s, first |-> first,
                   second |-> second, applied |-> <<0, 0>>, clamped |-> FALSE]
  /\ edges = {}
  /\ tasks = << >>
  /\ clock = 1
  /\ memories = << >>

\* run r applies its next call
ApplyNext(r) ==
  LET order == IF r = 1 THEN last.first ELSE last.second
      k == last.applied[r] + 1
      adjustment == Adjustment(order[k])
      sum == nodes[r].effectiveness_score + adjustment
  IN /\ k <= Len(order)
     /\ nodes' = [nodes EXCEPT ![r] = Adjusted(nodes[r], adjustment)]
     /\ last' = [last EXCEPT !.applied[r] = k,
                             !.clamped = @ \/ sum > 100 \/ sum < 0]
     /\ UNCHANGED <<memories, enabled, constraint, edges, tasks, clock>>

NextOrder == \E r \in {1, 2} : ApplyNext(r)

SpecOrder == InitOrder /\ [][NextOrder]_vars

\* ---- get_tool_description read twice against one state of the store ----
\* two active versions of one tool; their scores may be equal
TieScores == 90..100

InitReads ==
  /\ enabled = TRUE
  /\ constraint = FALSE
  /\ \E a \in TieScores, b \in TieScores :
        nodes = << [NewNode(ToolDescriptionModel("search_memories", "1.0",
                              HardcodedText("search_memories"), DefaultEnvironment,
                              "system_seeding", "active", 1))
                      EXCEPT !.effectiveness_score = a],
                   [NewNode(ToolDescriptionModel("search_memories", "2.0",
                              "Enhanced search tool", DefaultEnvironment,
                              "test_user", "active", 1))
                      EXCEPT !.effectiveness_score = b] >>
  /\ last = [op |-> "get_tool_description", tool_name |-> "search_memories",
             env |-> DefaultEnvironment, reads |-> << >>]
  /\ edges = {}
  /\ tasks = << >>
  /\ clock = 1
  /\ memories = << >>

\* one more read that the store answers; its strengthening task waits, so
\* the store is the same for the next read
ReadDescription ==
  /\ Len(last.reads) < 2
  /\ \E i \in BestIds(nodes, last.tool_name, last.env) :
       /\ tasks' = CreateTask(tasks, last.tool_name, last.env, nodes[i].version)
       /\ last' = [last EXCEPT !.reads = Append(@, nodes[i].version)]
  /\ UNCHANGED <<memories, enabled, constraint, nodes, edges, clock>>

NextReads == ReadDescription

SpecReads == InitReads /\ [][NextReads]_vars

\* ---- two mark_tool_description_deprecated calls on one key at once ----
\* tasks holds the two calls; each sends check_query, then deprecate_query

\* who calls, and why
Deprecators == {"user", "admin"}

InitDeprecate ==
  /\ enabled = TRUE
  /\ constraint = FALSE
  /\ \E status \in {"active", "testing"} :
        nodes = << NewNode(ToolDescriptionModel("search_memories", "1.0",
                             HardcodedText("search_memories"), DefaultEnvironment,
                             "system_seeding", status, 1)) >>
  /\ \E r1 \in Reasons, r2 \in Reasons, b1 \in Deprecators, b2 \in Deprecators :
        tasks = << [deprecated_by |-> b1, reason |-> r1, pc |-> "check",
                    status |-> "none"],
                   [deprecated_by |-> b2, reason |-> r2, pc |-> "check",
                    status |-> "none"] >>
  /\ last = [op |-> "mark_tool_description_deprecated", tool_name |-> "search_memories",
             version |-> "1.0", env |-> DefaultEnvironment, writes |-> 0]
  /\ edges = {}
  /\ clock = 1
  /\ memories = << >>

\* call k sends check_query and reads the status of the artifact
CheckDeprecated(k) ==
  LET ids == KeyIds(nodes, last.tool_name, last.version, last.env)
      Done(status) == tasks' = [tasks EXCEPT ![k].pc = "done", ![k].status = status]
  IN /\ tasks[k].pc = "check"
     /\ UNCHANGED <<memories, enabled, constraint, nodes, edges, clock, last>>
     /\ \/ Done("error")
        \/ IF ids = {} THEN Done("not_found")
           ELSE \E first \in ids :
                  IF AlreadyDeprecated(nodes[first].status)
                  THEN Done("already_deprecated")
                  ELSE tasks' = [tasks EXCEPT ![k].pc = "update"]

\* call k sends deprecate_query, which matches the key whatever the status
UpdateDeprecated(k) ==
  LET ids == KeyIds(nodes, last.tool_name, last.version, last.env)
  IN /\ tasks[k].pc = "update"
     /\ UNCHANGED <<memories, enabled, constraint, edges>>
     /\ \/ /\ tasks' = [tasks EXCEPT ![k].pc = "done", ![k].status = "error"]
           /\ UNCHANGED <<nodes, clock, last>>
        \/ /\ Tick
           /\ nodes' = [i \in Ids(nodes) |->
                         IF i \in ids
                         THEN Deprecated(nodes[i], clock, tasks[k].deprecated_by,
                                         tasks[k].reason)
                         ELSE nodes[i]]
           /\ tasks' = [tasks EXCEPT ![k].pc = "done", ![k].status = "deprecated"]
           /\ last' = [last EXCEPT !.writes = @ + 1]

NextDeprecate ==
  \/ \E k \in 1..Len(tasks) : CheckDeprecated(k)
  \/ \E k \in 1..Len(tasks) : UpdateDeprecated(k)

SpecDeprecate == InitDeprecate /\ [][NextDeprecate]_vars

\* ======================= the claims =======================

\* the nodes a lifecycle call names, before the call
CalledIds == KeyIds(nodes, last'.tool_name, last'.version, last'.env)

\* a lifecycle call whose queries the store answered, on an enabled manager
Answered(op) == last'.op = op /\ last'.status \notin {"error", "skipped"}

\* C1: in every reachable state, whatever outcomes were recorded, every
\* artifact's effectiveness_score lies in [0.0, 1.0]
C1_ScoreInRange ==
  \A i \in Ids(nodes) : nodes[i].effectiveness_score >= 0 /\ nodes[i].effectiveness_score <= 100

\* a success was recorded on an artifact that now stands at 1.0
C1_Witness ==
  /\ last.op = "record_effectiveness" /\ last.status = "updated" /\ last.success
  /\ \E i \in ActiveIds(nodes, last.tool_name, last.env) : nodes[i].effectiveness_score = 100

\* C2: a text that get_tool_description read from the store is the text of an
\* active artifact of the requested (tool_name, environment) whose score is at
\* least that of every other active artifact of that (tool_name, environment)
C2_BestActiveSelected ==
  (last.op = "get_tool_description" /\ last.status = "dynamic") =>
     \E i \in Ids(nodes) :
        /\ nodes[i].tool_name = last.tool_name
        /\ nodes[i].environment = last.env
        /\ nodes[i].status = "active"
        /\ nodes[i].description = last.text
        /\ nodes[i].version = last.version
        /\ \A j \in Ids(nodes) :
             (/\ nodes[j].tool_name = last.tool_name
              /\ nodes[j].environment = last.env
              /\ nodes[j].status = "active")
             => nodes[i].effectiveness_score >= nodes[j].effectiveness_score

\* a dynamic read with a lower-scored active artifact of the same tool to pass over
C2_Witness ==
  /\ last.op = "get_tool_description" /\ last.status = "dynamic"
  /\ \E j \in ActiveIds(nodes, last.tool_name, last.env) :
        /\ nodes[j].description # last.text
        /\ \E i \in ActiveIds(nodes, last.tool_name, last.env) :
              nodes[i].effectiveness_score > nodes[j].effectiveness_score

\* C3: get_tool_description on an enabled manager returns a non-empty string,
\* never None, whatever the store does
C3_NonEmptyDescription ==
  (last.op = "get_tool_description" /\ enabled) => (last.text # "" /\ last.text # None)

\* C4: a record_effectiveness call never lowers the confidence of an artifact
C4_ConfidenceNeverLowered ==
  [][last'.op = "record_effectiveness" =>
       \A i \in Ids(nodes) : nodes'[i].confidence >= nodes[i].confidence]_vars

\* C5: mark_tool_description_deprecated on a key that is already deprecated
\* returns already_deprecated with the stored deprecated_at and changes nothing
C5_AlreadyDeprecatedNoChange ==
  [][(/\ Answered("mark_tool_description_deprecated")
      /\ CalledIds # {}
      /\ \A i \in CalledIds : nodes[i].status = "deprecated")
     => /\ last'.status = "already_deprecated"
        /\ \E i \in CalledIds : last'.deprecated_at = nodes[i].deprecated_at
        /\ nodes' = nodes /\ edges' = edges /\ clock' = clock]_vars

\* a second deprecation, for another reason, was answered already_deprecated
C5_Witness ==
  /\ last.op = "mark_tool_description_deprecated" /\ last.status = "already_deprecated"
  /\ \E i \in KeyIds(nodes, last.tool_name, last.version, last.env) :
        /\ nodes[i].deprecation_reason # last.reason
        /\ nodes[i].deprecated_at = last.deprecated_at
        /\ nodes[i].deprecated_at < clock

\* C6: mark_tool_description_deprecated on an existing active or testing
\* artifact sets status deprecated, records deprecated_at, deprecated_by and
\* deprecation_reason, and returns deprecated
C6_DeprecateRecords ==
  [][(/\ Answered("mark_tool_description_deprecated")
      /\ CalledIds # {}
      /\ \A i \in CalledIds : nodes[i].status \in {"active", "testing"})
     => /\ last'.status = "deprecated"
        /\ last'.deprecated_at = clock
        /\ \A i \in CalledIds :
             /\ nodes'[i].status = "deprecated"
             /\ nodes'[i].deprecated_at = clock
             /\ nodes'[i].deprecated_by = last'.deprecated_by
             /\ nodes'[i].deprecation_reason = last'.reason]_vars

\* a testing artifact, derived from a base version, was deprecated
C6_Witness ==
  /\ last.op = "mark_tool_description_deprecated" /\ last.status = "deprecated"
  /\ \E i \in KeyIds(nodes, last.tool_name, last.version, last.env) :
        /\ nodes[i].status = "deprecated"
        /\ nodes[i].deprecation_reason = "ineffective"
        /\ \E e \in edges : e.to = i

\* C7: reactivate_tool_description on an existing artifact that is not
\* deprecated returns not_deprecated and changes no field of any artifact
C7_ReactivateNotDeprecated ==
  [][(/\ Answered("reactivate_tool_description")
      /\ CalledIds # {}
      /\ \A i \in CalledIds : nodes[i].status \in {"active", "testing"})
     => /\ last'.status = "not_deprecated"
        /\ nodes' = nodes /\ edges' = edges /\ clock' = clock]_vars

\* reactivation of a testing artifact was refused
C7_Witness ==
  /\ last.op = "reactivate_tool_description" /\ last.status = "not_deprecated"
  /\ last.current_status = "testing"
  /\ \E i \in KeyIds(nodes, last.tool_name, last.version, last.env) :
        nodes[i].status = "testing" /\ nodes[i].reactivated_at = NoTime

\* C8: reactivate_tool_description on a deprecated artifact sets status active,
\* records reactivated_at and reactivated_by, returns reactivated, and leaves
\* the deprecation fields, the score, the confidence and the access count
C8_ReactivateKeepsHistory ==
  [][(/\ Answered("reactivate_tool_description")
      /\ CalledIds # {}
      /\ \A i \in CalledIds : nodes[i].status = "deprecated")
     => /\ last'.status = "reactivated"
        /\ \A i \in CalledIds :
             /\ nodes'[i].status = "active"
             /\ nodes'[i].reactivated_at = clock
             /\ nodes'[i].reactivated_by = last'.reactivated_by
             /\ nodes'[i].deprecated_at = nodes[i].deprecated_at
             /\ nodes'[i].deprecated_by = nodes[i].deprecated_by
             /\ nodes'[i].deprecation_reason = nodes[i].deprecation_reason
             /\ nodes'[i].effectiveness_score = nodes[i].effectiveness_score
             /\ nodes'[i].confidence = nodes[i].confidence
             /\ nodes'[i].access_count = nodes[i].access_count]_vars

\* a deprecated artifact is active again and still carries its deprecation
C8_Witness ==
  /\ last.op = "reactivate_tool_description" /\ last.status = "reactivated"
  /\ \E i \in KeyIds(nodes, last.tool_name, last.version, last.env) :
        /\ nodes[i].status = "active"
        /\ nodes[i].deprecated_at # NoTime
        /\ nodes[i].deprecation_reason = "ineffective"
        /\ nodes[i].reactivated_at > nodes[i].deprecated_at

\* C9: promote makes a testing artifact active and reports it; on an artifact
\* in any other status it fails and changes nothing
C9_PromoteFromTesting ==
  [][last'.op = "promote_testing_to_active" =>
       IF CalledIds # {} /\ \A i \in CalledIds : nodes[i].status = "testing"
       THEN /\ last'.status = "promoted"
            /\ \A i \in CalledIds : nodes'[i].status = "active"
       ELSE /\ last'.status # "promoted"
            /\ nodes' = nodes]_vars

\* C10: a successful create_description_version whose new key was absent
\* creates exactly one artifact, for (tool_name, new_version, environment), in
\* status testing with score 0.0 and access_count 0, creates one evolution
\* edge, from the base version to the new version, and returns created
C10_DeriveCreatesOneArtifactOneEdge ==
  [][(/\ last'.op = "create_description_version"
      /\ last'.status = "created"
      /\ KeyIds(nodes, last'.tool_name, last'.new_version, last'.env) = {})
     => /\ Len(nodes') = Len(nodes) + 1
        /\ SubSeq(nodes', 1, Len(nodes)) = nodes
        /\ LET new == nodes'[Len(nodes')]
           IN /\ new.tool_name = last'.tool_name
              /\ new.version = last'.new_version
              /\ new.environment = last'.env
              /\ new.status = "testing"
              /\ new.effectiveness_score = 0
              /\ new.access_count = 0
        /\ edges \subseteq edges'
        /\ Cardinality(edges' \ edges) = 1
        /\ \A e \in edges' \ edges :
             /\ e.to = Len(nodes')
             /\ e.from \in KeyIds(nodes, last'.tool_name, last'.base_version, last'.env)]_vars

\* C11: create_description_version on an enabled manager, with the base key
\* present and the new key already present, returns version_exists and leaves
\* the artifacts and the evolution edges as they were
C11_VersionExistsNoChange ==
  [][(/\ Answered("create_description_version")
      /\ KeyIds(nodes, last'.tool_name, last'.base_version, last'.env) # {}
      /\ KeyIds(nodes, last'.tool_name, last'.new_version, last'.env) # {})
     => /\ last'.status = "version_exists"
        /\ nodes' = nodes /\ edges' = edges]_vars

\* C12: in every reachable state at most one artifact exists per
\* (tool_name, version, environment)
C12_UniqueKey == ~HasDuplicates(nodes)

\* C13: both endpoints of every evolution edge are existing artifacts, an edge
\* appears only in a call that created its new artifact, and a call whose
\* artifact creation failed creates no edge
C13_EdgeAfterArtifact ==
  [][/\ \A e \in edges' : e.from \in Ids(nodes') /\ e.to \in Ids(nodes')
     /\ edges' # edges => Len(nodes') = Len(nodes) + 1
     /\ (last'.op = "create_description_version" /\ last'.status = "creation_failed")
          => edges' = edges /\ nodes' = nodes]_vars

\* a derived artifact and the edge that leads to it, created in the same call
C13_Witness ==
  /\ last.op = "create_description_version" /\ last.status = "created"
  /\ \E e \in edges :
        /\ e.to = Len(nodes)
        /\ e.from < e.to
        /\ nodes[e.to].status = "testing"
        /\ nodes[e.to].created = e.created

\* C14: a record_effectiveness call the store answered moves the score of every
\* active artifact of (tool_name, environment) by +0.05 on success and by -0.02
\* on failure, clamped into [0.0, 1.0]
C14_ScoreAdjustment ==
  [][(last'.op = "record_effectiveness" /\ last'.status = "updated")
     => \A i \in ActiveIds(nodes, last'.tool_name, last'.env) :
          LET s == nodes[i].effectiveness_score
              t == IF last'.success THEN s + 5 ELSE s - 2
          IN nodes'[i].effectiveness_score =
               IF t > 100 THEN 100 ELSE IF t < 0 THEN 0 ELSE t]_vars

\* a failure was recorded on the fixture's artifact: 0.85 became 0.83
C14_Witness ==
  /\ last.op = "record_effectiveness" /\ last.status = "updated" /\ ~last.success
  /\ \E i \in ActiveIds(nodes, last.tool_name, last.env) :
        nodes[i].effectiveness_score = 83 /\ nodes[i].version = "2.0"

\* C15: after 100 answered record_effectiveness calls in a row with
\* success=True the score is 1.0, and stays 1.0 under further successes; with
\* success=False it is 0.0, and stays 0.0 under further failures
C15_RunConverges ==
  last.calls >= 100 =>
    \A i \in Ids(nodes) :
       nodes[i].effectiveness_score = IF last.success THEN 100 ELSE 0

\* more than 100 failures in a row on an artifact that started at 1.0
C15_Witness ==
  /\ last.calls > 100 /\ ~last.success /\ last.start = 100
  /\ nodes[1].effectiveness_score = 0

\* C16: a record_effectiveness call changes no artifact that is not active, so
\* a call for a (tool_name, environment) without active artifacts changes no
\* artifact at all; the call returns, it does not raise
C16_OnlyActiveRecorded ==
  [][last'.op = "record_effectiveness"
     => /\ Len(nodes') = Len(nodes)
        /\ \A i \in Ids(nodes) :
             (\/ nodes[i].status # "active"
              \/ nodes[i].tool_name # last'.tool_name
              \/ nodes[i].environment # last'.env) => nodes'[i] = nodes[i]
        /\ ActiveIds(nodes, last'.tool_name, last'.env) = {} => nodes' = nodes
        /\ last'.status \in {"none", "updated"}]_vars

\* an outcome was recorded for a tool whose only artifacts are deprecated or
\* testing: the store answered and nothing was updated
C16_Witness ==
  /\ last.op = "record_effectiveness" /\ last.status = "none" /\ ~last.raised
  /\ \E i \in Ids(nodes) :
        /\ nodes[i].tool_name = last.tool_name /\ nodes[i].environment = last.env
        /\ nodes[i].status = "deprecated"
  /\ ActiveIds(nodes, last.tool_name, last.env) = {}

\* the operations that answer without the store when the manager is disabled
SkippingOps ==
  {"setup_schema", "seed_initial_descriptions", "mark_tool_description_deprecated",
   "reactivate_tool_description", "create_description_version"}

\* C17: on a disabled manager get_tool_description returns the text of the
\* fallback table, get_schema_info returns disabled and setup_schema,
\* seed_initial_descriptions, mark_tool_description_deprecated,
\* reactivate_tool_description and create_description_version return skipped;
\* none of them touches the store: nothing in it changes, no task is
\* scheduled, and no outcome of a store query shows in the result
C17_DisabledSkips ==
  [][(~enabled /\ last'.op \in SkippingOps \cup {"get_tool_description", "get_schema_info"})
     => /\ UNCHANGED <<constraint, nodes, edges, tasks, clock>>
        /\ last'.op \in SkippingOps => last'.status = "skipped"
        /\ last'.op = "get_schema_info" => last'.status = "disabled"
        /\ last'.op = "get_tool_description" =>
             /\ last'.status = "fallback" /\ ~last'.raised
             /\ last'.text = FallbackGet(last'.tool_name)]_vars

\* a disabled manager skipped a derivation whose base version is in the store
C17_Witness ==
  /\ ~enabled
  /\ last.op = "create_description_version" /\ last.status = "skipped"
  /\ KeyIds(nodes, last.tool_name, last.base_version, last.env) # {}
  /\ KeyIds(nodes, last.tool_name, last.new_version, last.env) = {}

\* the artifacts of the seed key tool_name, in the manager's environment
SeedIds(ns, tool_name) == KeyIds(ns, tool_name, "1.0", DefaultEnvironment)

\* node carries the values seed_initial_descriptions gives the key tool_name
SeedValues(node, tool_name) ==
  /\ node.status = "active"
  /\ node.version = "1.0"
  /\ node.access_count = 0
  /\ node.description = HardcodedText(tool_name)

\* C18: seed_initial_descriptions on an enabled manager and an empty store,
\* no CREATE meeting a store failure, creates exactly one artifact per key of
\* the fallback table, active, version 1.0, access_count 0, with the fallback
\* text, and reports every key created, none skipped, none failed
C18_SeedEmptyStore ==
  [][(/\ last'.op = "seed_initial_descriptions"
      /\ enabled /\ nodes = << >> /\ ~last'.raised)
     => /\ last'.status = "completed"
        /\ last'.created = FallbackOrder
        /\ last'.skipped = << >> /\ last'.failed = << >>
        /\ Len(nodes') = Len(FallbackOrder)
        /\ \A k \in FallbackKeys :
             /\ Cardinality(SeedIds(nodes', k)) = 1
             /\ \A i \in SeedIds(nodes', k) : SeedValues(nodes'[i], k)]_vars

\* a seeding that found the store empty and created every key
C18_Witness ==
  /\ last.op = "seed_initial_descriptions" /\ last.status = "completed"
  /\ last.created = FallbackOrder
  /\ Len(nodes) = Len(FallbackOrder)
  /\ \A i \in Ids(nodes) : nodes[i].created_by = "system_seeding" /\ nodes[i].created = 1

\* C19: seed_initial_descriptions without overwrite skips every key whose
\* version-1.0 artifact exists and changes no existing artifact; so a second
\* seeding without overwrite leaves the store as the first one left it
C19_SeedSkipsExisting ==
  [][(/\ last'.op = "seed_initial_descriptions"
      /\ enabled /\ ~last'.overwrite)
     => /\ \A k \in FallbackKeys :
             SeedIds(nodes, k) # {} =>
               /\ \E j \in 1..Len(last'.skipped) : last'.skipped[j] = k
               /\ SeedIds(nodes', k) = SeedIds(nodes, k)
        /\ SubSeq(nodes', 1, Len(nodes)) = nodes
        /\ (\A k \in FallbackKeys : SeedIds(nodes, k) # {}) => nodes' = nodes]_vars

\* C20: seed_initial_descriptions with overwrite on an enabled manager, every
\* seed key present and no CREATE meeting a store failure, reports every key
\* created, none skipped, and afterwards every version-1.0 artifact of a seed
\* key carries the seed values
C20_SeedOverwriteRecreates ==
  [][(/\ last'.op = "seed_initial_descriptions"
      /\ enabled /\ last'.overwrite /\ ~last'.raised
      /\ \A k \in FallbackKeys : SeedIds(nodes, k) # {})
     => /\ last'.created = FallbackOrder
        /\ last'.skipped = << >>
        /\ \A k \in FallbackKeys :
             \A i \in SeedIds(nodes', k) : SeedValues(nodes'[i], k)]_vars

\* C21: the strengthening task of a dynamic lookup, when the store carries it
\* out, raises the access_count of the selected version by exactly 1 and
\* refreshes its last_accessed, and changes the access_count of no other
\* artifact
C21_StrengthenSelectedOnly ==
  [][(last'.op = "_increment_access_count" /\ last'.status = "updated")
     => \A i \in Ids(nodes) :
          IF i \in KeyIds(nodes, last'.tool_name, last'.version, last'.env)
          THEN /\ nodes'[i].access_count = nodes[i].access_count + 1
               /\ nodes'[i].last_accessed = clock
          ELSE nodes'[i].access_count = nodes[i].access_count]_vars

\* C23: no step removes an artifact or changes the key of one, and an artifact
\* that is deprecated after a step has the text, score, confidence and
\* access_count it had before the step
C23_NeverRemoved ==
  [][/\ Len(nodes') >= Len(nodes)
     /\ \A i \in Ids(nodes) :
          /\ nodes'[i].tool_name = nodes[i].tool_name
          /\ nodes'[i].version = nodes[i].version
          /\ nodes'[i].environment = nodes[i].environment
          /\ nodes'[i].status = "deprecated" =>
               /\ nodes'[i].description = nodes[i].description
               /\ nodes'[i].effectiveness_score = nodes[i].effectiveness_score
               /\ nodes'[i].confidence = nodes[i].confidence
               /\ nodes'[i].access_count = nodes[i].access_count]_vars

\* an artifact that usage had brought to score 1.0 was deprecated and is
\* still in the store with that score
C23_Witness ==
  /\ last.op = "mark_tool_description_deprecated" /\ last.status = "deprecated"
  /\ \E i \in KeyIds(nodes, last.tool_name, last.version, last.env) :
        /\ nodes[i].status = "deprecated"
        /\ nodes[i].effectiveness_score = 100
        /\ nodes[i].access_count = 5

\* C22: a failure of access strengthening never fails the read that
\* triggered it: when the access-count update of an entity retrieval fails,
\* the retrieval still returns its result.
C22_ReadSurvivesUpdateFailure ==
  (last.op \in {"load_graph", "find_memories_by_name"} /\ last.update_failed)
    => last.status = "returned"

\* C24: the entities a search returns are ordered by discovery_score
\* descending and, among equal discovery scores, by match score descending;
\* the discovery score is the formula on the fields of the returned entity.
C24_SearchOrdered ==
  (last.op = "load_graph" /\ last.status = "returned") =>
    \A i, j \in DOMAIN last.entities :
      i < j =>
        LET x == last.entities[i]
            y == last.entities[j]
            dx == x.confidence * 20000 + x.effectiveness_score * 15000
                    + LnMicro(x.access_count + 1) + StatusWeight(x.status) * 5000
            dy == y.confidence * 20000 + y.effectiveness_score * 15000
                    + LnMicro(y.access_count + 1) + StatusWeight(y.status) * 5000
        IN \/ dx > dy
           \/ dx = dy /\ last.hits[x.name] >= last.hits[y.name]

\* a search returned entity 2 before entity 1 although entity 1 matched
\* better, and entity 1 before its equal entity 3 because it matched better
C24_Witness ==
  /\ last.op = "load_graph" /\ last.status = "returned"
  /\ Len(last.entities) = 3
  /\ last.entities[1].name = "entity2" /\ last.hits["entity2"] = 1
  /\ last.entities[2].name = "entity1" /\ last.hits["entity1"] = 2
  /\ last.entities[3].name = "entity3" /\ last.hits["entity3"] = 1
  /\ last.scores[2] = last.scores[3]

\* C25: ranking entity 1 (0.9, 0.0, 0 accesses, active) against entity 2
\* (0.1, 0.9, 100 accesses, deprecated) with equal match scores yields the
\* discovery scores 0.46 and 1.272 within 0.001, and entity 2 first.
\* In the unit of discovery_score: 2300000, 6360000 and 5000.
C25_RankingScenario ==
  [][(/\ last'.op = "load_graph" /\ last'.status = "returned"
      /\ DOMAIN last'.hits = {"entity1", "entity2"}
      /\ last'.hits["entity1"] = last'.hits["entity2"]
      /\ memories[1] = SampleEntities[1]
      /\ memories[2] = SampleEntities[2])
     => /\ last'.entities[1].name = "entity2"
        /\ last'.entities[2].name = "entity1"
        /\ last'.scores[2] = 2300000
        /\ last'.scores[1] >= 6360000 - 5000
        /\ last'.scores[1] <= 6360000 + 5000]_vars

\* the lifecycle operations
LifecycleOps ==
  {"mark_tool_description_deprecated", "reactivate_tool_description",
   "create_description_version", "promote_testing_to_active"}

\* C26: every result of mark_tool_description_deprecated,
\* reactivate_tool_description, create_description_version and promote
\* carries a status out of deprecated, already_deprecated, not_found,
\* reactivated, not_deprecated, created, base_not_found, version_exists, error.
C26_StatusDiscriminator ==
  last.op \in LifecycleOps =>
    last.status \in {"deprecated", "already_deprecated", "not_found", "reactivated",
                     "not_deprecated", "created", "base_not_found", "version_exists",
                     "error"}

\* C27: when a store query fails during mark_tool_description_deprecated,
\* reactivate_tool_description, create_description_version, setup_schema,
\* get_schema_info or health_check, the operation returns a result with
\* status error.
C27_StoreFailureIsError ==
  (/\ last.op \in {"mark_tool_description_deprecated", "reactivate_tool_description",
                   "create_description_version", "setup_schema", "get_schema_info",
                   "health_check"}
   /\ last.store_failed)
    => last.status = "error"

\* C28: mark_tool_description_deprecated with an empty reason is rejected
\* with a ValidationError and changes no artifact, and no artifact ever has
\* status deprecated with an empty deprecation_reason.
C28_EmptyReasonRejected ==
  [][/\ (last'.op = "mark_tool_description_deprecated" /\ last'.reason = "")
          => (last'.status = "ValidationError" /\ nodes' = nodes)
     /\ \A i \in Ids(nodes') :
          nodes'[i].status = "deprecated" => nodes'[i].deprecation_reason # ""]_vars

\* C29: the status of an artifact changes only from testing to active, from
\* testing to deprecated, from active to deprecated and from deprecated to
\* active: nothing moves an existing artifact into testing, and an active
\* artifact leaves active only by becoming deprecated.
C29_StatusTransitions ==
  [][\A i \in Ids(nodes) :
       nodes'[i].status # nodes[i].status =>
         <<nodes[i].status, nodes'[i].status>> \in
           {<<"testing", "active">>, <<"testing", "deprecated">>,
            <<"active", "deprecated">>, <<"deprecated", "active">>}]_vars

\* a derived artifact, created as testing, was deprecated
C29_Witness ==
  /\ last.op = "mark_tool_description_deprecated" /\ last.status = "deprecated"
  /\ \E i \in KeyIds(nodes, last.tool_name, last.version, last.env) :
       /\ nodes[i].created_by \in Actors
       /\ nodes[i].status = "deprecated"
       /\ nodes[i].deprecated_at = last.deprecated_at

\* C30: concurrent record_effectiveness calls on one active artifact lose no
\* update: as long as no value was clamped, after n successes and m failures
\* were applied in any interleaving the score is s + 0.05*n - 0.02*m.
C30_NoLostUpdate ==
  ~last.clamped =>
    nodes[1].effectiveness_score = last.start + 5 * last.successes - 2 * last.failures

\* calls that overlapped, a success and a failure among them, were all applied
C30_Witness ==
  /\ tasks = << >>
  /\ last.overlapped /\ ~last.clamped
  /\ last.successes >= 1 /\ last.failures >= 1
  /\ last.successes + last.failures = MaxCallers

\* C31: a set of record_effectiveness calls on one active artifact ends at
\* the same effectiveness_score in every order of application, as long as no
\* intermediate sum leaves [0.0, 1.0]: two orders of the same calls that met
\* no clamping end at the same score.
C31_OrderIndependent ==
  (/\ last.applied[1] = Len(last.first)
   /\ last.applied[2] = Len(last.second)
   /\ ~last.clamped)
    => nodes[1].effectiveness_score = nodes[2].effectiveness_score

\* two different orders of successes and failures were applied in full
C31_Witness ==
  /\ last.first # last.second
  /\ Len(last.first) = MaxOrder
  /\ last.applied = <<MaxOrder, MaxOrder>>
  /\ ~last.clamped
  /\ nodes[1].effectiveness_score = nodes[2].effectiveness_score
  /\ nodes[1].effectiveness_score # last.start

\* the pairs joined by a path of at most n + 1 edges
RECURSIVE EdgePaths(_, _)
EdgePaths(R, n) ==
  IF n = 0 THEN R
  ELSE LET C == EdgePaths(R, n - 1)
       IN C \cup {<<x[1][1], x[2][2]>> : x \in {y \in C \X R : y[1][2] = y[2][1]}}

\* C32: in every reachable state the evolution edges among the artifact
\* versions form a directed acyclic graph: no version has an edge to itself
\* and no cycle of evolved-to edges exists.
C32_EvolutionAcyclic ==
  LET R == {<<e.from, e.to>> : e \in edges}
  IN \A i \in Ids(nodes) : <<i, i>> \notin EdgePaths(R, Len(nodes))

\* C33: when create_description_version created the artifact and the edge
\* creation then failed, the new artifact exists in testing status without
\* an evolution edge and the call returns an error, not created.
C33_EdgeFailureSurfaced ==
  [][(/\ last'.op = "create_description_version"
      /\ Len(nodes') = Len(nodes) + 1
      /\ edges' = edges)
     => /\ last'.status = "error"
        /\ nodes'[Len(nodes')].status = "testing"
        /\ nodes'[Len(nodes')].version = last'.new_version
        /\ \A e \in edges' : e.from # Len(nodes') /\ e.to # Len(nodes')]_vars

\* the call created the testing artifact just now and returned an error
C33_Witness ==
  /\ last.op = "create_description_version" /\ last.status = "error"
  /\ nodes # << >>
  /\ nodes[Len(nodes)].status = "testing"
  /\ nodes[Len(nodes)].version = last.new_version
  /\ nodes[Len(nodes)].created = clock - 1
  /\ \A e \in edges : e.from # Len(nodes) /\ e.to # Len(nodes)

\* C34: the lineage get_description_versions returns is closed: for every
\* value of include_deprecated each returned edge has its from_version and
\* its to_version among the returned versions, and with include_deprecated
\* it returns every version of (tool_name, environment) and every edge among
\* them.
C34_LineageClosed ==
  (last.op = "get_description_versions" /\ last.status = "success") =>
    /\ \A e \in last.evolutions :
         e.from_version \in last.versions /\ e.to_version \in last.versions
    /\ last.include_deprecated =>
         /\ \A i \in Ids(nodes) :
              (nodes[i].tool_name = last.tool_name /\ nodes[i].environment = last.env)
                => nodes[i].version \in last.versions
         /\ \A d \in edges :
              (/\ nodes[d.from].tool_name = last.tool_name
               /\ nodes[d.from].environment = last.env
               /\ nodes[d.to].tool_name = last.tool_name
               /\ nodes[d.to].environment = last.env)
                => [from_version |-> nodes[d.from].version,
                    to_version |-> nodes[d.to].version] \in last.evolutions

\* C35: get_tool_description schedules one access-strengthening update when
\* the lookup returns a row and none when it answers from the fallback table
\* (manager disabled, empty result, store exception); the call itself
\* changes no access_count.
C35_ScheduledOnce ==
  [][last'.op = "get_tool_description" =>
       /\ nodes' = nodes
       /\ IF last'.status = "dynamic"
          THEN /\ Len(tasks') = Len(tasks) + 1
               /\ SubSeq(tasks', 1, Len(tasks)) = tasks
               /\ tasks'[Len(tasks')] = [tool_name |-> last'.tool_name,
                                         environment |-> last'.env,
                                         version |-> last'.version]
          ELSE /\ tasks' = tasks
               /\ last'.text = FallbackGet(last'.tool_name)]_vars

\* a read answered from the store, its one update waiting
C35_Witness ==
  /\ last.op = "get_tool_description" /\ last.status = "dynamic"
  /\ Len(tasks) = 1
  /\ tasks[1].version = last.version
  /\ \E i \in ActiveIds(nodes, last.tool_name, last.env) :
       nodes[i].version = last.version /\ nodes[i].last_accessed = NoTime

\* C36: selection among active artifacts is deterministic: two reads of one
\* (tool_name, environment) against the same state of the store return the
\* same artifact, also when several active artifacts share the highest
\* effectiveness_score.
C36_SelectionDeterministic ==
  Len(last.reads) = 2 => last.reads[1] = last.reads[2]

\* C37: when two mark_tool_description_deprecated calls on one
\* non-deprecated key run concurrently and the store answers all their
\* queries, one returns deprecated and the other already_deprecated, and the
\* deprecation fields are written once.
C37_OneDeprecates ==
  (\A k \in 1..Len(tasks) : tasks[k].pc = "done" /\ tasks[k].status # "error")
    => /\ {tasks[k].status : k \in 1..Len(tasks)} = {"deprecated", "already_deprecated"}
       /\ last.writes = 1

\* C38: on a manager constructed with enabled=False no operation writes to
\* the store: after any calls the artifacts, their fields and the edges are
\* unchanged.
C38_DisabledWritesNothing ==
  [][~enabled => (nodes' = nodes /\ edges' = edges)]_vars

\* C39: while an artifact is deprecated only reactivate changes it:
\* record_effectiveness and access strengthening leave its
\* effectiveness_score, confidence, access_count and last_accessed alone,
\* and reactivation does not touch them either, so its values at
\* reactivation are its values at deprecation.
C39_DeprecatedFrozen ==
  [][\A i \in Ids(nodes) :
       nodes[i].status = "deprecated" =>
         /\ nodes'[i].effectiveness_score = nodes[i].effectiveness_score
         /\ nodes'[i].confidence = nodes[i].confidence
         /\ nodes'[i].access_count = nodes[i].access_count
         /\ nodes'[i].last_accessed = nodes[i].last_accessed
         /\ nodes'[i].status # "deprecated" =>
              (last'.op = "reactivate_tool_description" /\ nodes'[i].status = "active")]_vars

\* an artifact with a score and accesses of its own came back from deprecation
C39_Witness ==
  /\ last.op = "reactivate_tool_description" /\ last.status = "reactivated"
  /\ \E i \in KeyIds(nodes, last.tool_name, last.version, last.env) :
       /\ nodes[i].status = "active"
       /\ nodes[i].reactivated_at = last.reactivated_at
       /\ nodes[i].effectiveness_score = 97
       /\ nodes[i].access_count = 5
       /\ nodes[i].confidence = 90

\* the operations that name an environment, and the environment of a call
EnvironmentOps ==
  {"get_tool_description", "_increment_access_count", "record_effectiveness",
   "seed_initial_descriptions", "mark_tool_description_deprecated",
   "reactivate_tool_description", "create_description_version"}

CallEnvironment(call) ==
  IF call.op = "seed_initial_descriptions" THEN DefaultEnvironment ELSE call.env

\* C40: environments are isolated: get_tool_description, access
\* strengthening, record_effectiveness, seed_initial_descriptions,
\* mark_tool_description_deprecated, reactivate_tool_description and
\* create_description_version called for environment E change no artifact
\* and no edge of another environment, add artifacts and edges of E only,
\* and answer from artifacts of E only.
C40_EnvironmentsIsolated ==
  [][last'.op \in EnvironmentOps =>
       LET E == CallEnvironment(last')
       IN /\ \A i \in Ids(nodes) : nodes[i].environment # E => nodes'[i] = nodes[i]
          /\ \A i \in Ids(nodes') \ Ids(nodes) : nodes'[i].environment = E
          /\ \A e \in edges' \ edges :
               nodes'[e.from].environment = E /\ nodes'[e.to].environment = E
          /\ edges \subseteq edges'
          /\ (last'.op = "get_tool_description" /\ last'.status = "dynamic") =>
               \E i \in Ids(nodes) : /\ nodes[i].environment = E
                                     /\ nodes[i].tool_name = last'.tool_name
                                     /\ nodes[i].version = last'.version
                                     /\ nodes[i].description = last'.text
          /\ (/\ last'.op \in {"mark_tool_description_deprecated",
                               "reactivate_tool_description"}
              /\ last'.status \notin {"error", "skipped", "not_found"}) =>
               \E i \in Ids(nodes) : /\ nodes[i].environment = E
                                     /\ nodes[i].tool_name = last'.tool_name
                                     /\ nodes[i].version = last'.version
          /\ (/\ last'.op = "create_description_version"
              /\ last'.status \notin {"error", "skipped", "base_not_found"}) =>
               \E i \in Ids(nodes) : /\ nodes[i].environment = E
                                     /\ nodes[i].tool_name = last'.tool_name
                                     /\ nodes[i].version = last'.base_version]_vars

\* a call for the other environment found nothing of a key that exists in
\* the environment of the manager
C40_Witness ==
  /\ last.op = "mark_tool_description_deprecated" /\ last.status = "not_found"
  /\ last.env = OtherEnvironment
  /\ \E i \in Ids(nodes) : /\ nodes[i].tool_name = last.tool_name
                           /\ nodes[i].version = last.version
                           /\ nodes[i].environment = DefaultEnvironment
                           /\ nodes[i].status = "active"

====
